---------------------------- MODULE Spec2Model ----------------------------
(***************************************************************************)
(* TTS-Pipe (src/main.py): stress annotation, chunked speech synthesis     *)
(* with bounded retries, and WAV concatenation, driven by a menu loop.     *)
(*                                                                         *)
(* A text, a paragraph and a fragment are sequences of one-character       *)
(* strings; a text holds line breaks, which split it into paragraphs.  A   *)
(* chunk file name part_<digits>.wav is the sequence of its decimal        *)
(* digits.  Audio frames are run-length encoded: a sequence of             *)
(* <<sample, count>> runs.                                                 *)
(***************************************************************************)
EXTENDS Naturals, Sequences, FiniteSets, TLC

VARIABLES
    pc,            \* control position of the process
    mode,          \* "cycle" inside run_full_cycle, "single" otherwise
    cmds,          \* menu choices read so far
    dir_exists,    \* PARTS_DIR exists
    dir_parts,     \* entries of PARTS_DIR matching part_*.wav: digits -> content
    dir_others,    \* the other entries of PARTS_DIR (names)
    stressed_file, \* the annotated-text file: MissingText or TextFile(text)
    threshold,     \* LETTERS_PER_FRADMENT (2500 in the source), any of Thresholds
    fragments,     \* tts_synthesize: the fragment list
    idx,           \* tts_synthesize: index of the fragment in progress
    attempt,       \* tts_synthesize: attempt number in progress
    calls,         \* urlopen calls to the TTS service in this invocation
    tried,         \* urlopen calls per fragment index in this invocation
    succeeded,     \* fragment indices whose attempt loop ended with success = True
    stress_ret,    \* last return value of stress_text, or "none"
    synth_ret,     \* last return value of tts_synthesize, or "none"
    merge_ret,     \* last return value of merge_parts, or "none"
    output_file,   \* the merged output file: NoOutput or OutputOf(WAV)
    warned,        \* merge_parts logged the parameters-differ warning
    noticed,       \* merge_parts printed the over-one-hour notice
    part_files,    \* merge_parts: the listing, in the order the files are read
    past,          \* what the earlier invocations of this session did
    peer           \* a second process running tts_synthesize on PARTS_DIR

vars == <<pc, mode, cmds, dir_exists, dir_parts, dir_others, stressed_file,
          threshold, fragments, idx, attempt, calls, tried, succeeded, stress_ret,
          synth_ret, merge_ret, output_file, warned, noticed, part_files,
          past, peer>>

(***************************************************************************)
(* Bounds of the model.                                                    *)
(***************************************************************************)
MaxTextLen == 6      \* characters of an annotated text given to the fragmenter
MaxThreshold == 3    \* largest fragment threshold explored
MaxFragments == 3    \* paragraphs of the texts a session synthesizes
MaxCommands == 2     \* menu choices read in one session

(***************************************************************************)
(* Program constants.                                                      *)
(***************************************************************************)
RETRY_COUNT == 3
PAD_WIDTH == 3       \* f"part_{idx:03d}.wav"
HOUR == 3600         \* duration_sec > 3600

\* a text file: absent, or holding a document
MissingText == [exists |-> FALSE, text |-> <<>>]
TextFile(t) == [exists |-> TRUE, text |-> t]

(***************************************************************************)
(* Text.                                                                   *)
(***************************************************************************)
Newline == "\n"
Whitespace == {" "}
Letters == {"a", "b"}
Chars == Letters \cup Whitespace \cup {Newline}

SeqsUpTo(S, n) == UNION {[1..k -> S] : k \in 0..n}

\* the annotated texts given to the fragmenter
Texts == SeqsUpTo(Chars, MaxTextLen)

Thresholds == 0..MaxThreshold

RECURSIVE SplitLoop(_, _, _, _)
SplitLoop(text, i, cur, acc) ==
    IF i > Len(text) THEN Append(acc, cur)
    ELSE IF text[i] = Newline
         THEN SplitLoop(text, i + 1, <<>>, Append(acc, cur))
         ELSE SplitLoop(text, i + 1, Append(cur, text[i]), acc)

\* text.split('\n'): the paragraphs, at least one (possibly empty)
Split(text) == SplitLoop(text, 1, <<>>, <<>>)

\* mutant: "if not para" without the strip
IsBlank_NoStrip(para) == para = <<>>

\* not para.strip(): every character of the paragraph is whitespace
IsBlank(para) == \A i \in 1..Len(para) : para[i] \in Whitespace

\* mutant: the fragment is closed one character early
ShouldAppend_OffByOne(frags, T) ==
    frags # <<>> /\ Len(frags[Len(frags)]) + 1 < T

\* mutant: <= in place of <
ShouldAppend_AtMost(frags, T) == frags # <<>> /\ Len(frags[Len(frags)]) <= T

\* fragments and len(fragments[-1]) < LETTERS_PER_FRADMENT
ShouldAppend(frags, T) == frags # <<>> /\ Len(frags[Len(frags)]) < T

\* fragments[-1] += ' ' + para
JoinPara(frag, para) == frag \o <<" ">> \o para

RECURSIVE FragLoop(_, _, _, _)
FragLoop(paras, i, frags, T) ==
    IF i > Len(paras) THEN frags
    ELSE LET para == paras[i] IN
         IF IsBlank(para) THEN FragLoop(paras, i + 1, frags, T)
         ELSE IF ShouldAppend(frags, T)
              THEN FragLoop(paras, i + 1,
                            [frags EXCEPT ![Len(frags)] = JoinPara(@, para)], T)
              ELSE FragLoop(paras, i + 1, Append(frags, para), T)

\* the fragment list built from the text of the annotated file
Fragmenter(text, T) == FragLoop(Split(text), 1, <<>>, T)

(***************************************************************************)
(* Chunk file names.                                                       *)
(***************************************************************************)
RECURSIVE Digits(_)
Digits(n) == IF n < 10 THEN <<n>> ELSE Append(Digits(n \div 10), n % 10)

RECURSIVE ZeroPad(_, _)
ZeroPad(ds, w) == IF Len(ds) >= w THEN ds ELSE ZeroPad(<<0>> \o ds, w)

\* f"part_{idx:03d}.wav", as the digits between "part_" and ".wav"
PartName(i) == ZeroPad(Digits(i), PAD_WIDTH)

(***************************************************************************)
(* Audio.                                                                  *)
(***************************************************************************)
Format(rate) == [nchannels |-> 1, sampwidth |-> 2, framerate |-> rate]
Formats == {Format(1), Format(2)}

Wav(fmt, frames) == [valid |-> TRUE, fmt |-> fmt, frames |-> frames]

\* a file that wave.open cannot read (a payload cut short while written)
Truncated == [valid |-> FALSE, fmt |-> Format(1), frames |-> <<>>]

RECURSIVE FrameCount(_)
FrameCount(frames) ==
    IF frames = <<>> THEN 0 ELSE frames[1][2] + FrameCount(Tail(frames))

\* the output file: absent, or holding a WAV
NoOutput == [exists |-> FALSE, wav |-> Truncated]
OutputOf(w) == [exists |-> TRUE, wav |-> w]

\* the response bodies the TTS service returns in the model
Responses == {Wav(Format(1), <<<<"x", 1>>>>), Wav(Format(2), <<<<"y", 2>>>>)}

(***************************************************************************)
(* The scratch directory PARTS_DIR.                                        *)
(***************************************************************************)
EmptyDir == [n \in {} |-> Truncated]

\* mutant: only the part_*.wav entries are looked at
DirNonEmpty_OnlyChunks(parts, others) == DOMAIN parts # {}

\* mutant: the directory is never looked at
DirNonEmpty_Never(parts, others) == FALSE

\* any(PARTS_DIR.iterdir())
DirNonEmpty(parts, others) == DOMAIN parts # {} \/ others # {}

\* with part_file.open('wb') as f: f.write(audio)
WriteFile(parts, name, content) == (name :> content) @@ parts

\* Path order of part_a.wav and part_b.wav: '.' sorts before every digit,
\* so a name that is a proper prefix of another comes first
NameLess(a, b) ==
    \/ \E k \in 1..Len(a) :
          /\ k <= Len(b)
          /\ \A j \in 1..(k - 1) : a[j] = b[j]
          /\ a[k] < b[k]
    \/ /\ Len(a) < Len(b)
       /\ \A j \in 1..Len(a) : a[j] = b[j]

RECURSIVE SortNames(_)
SortNames(names) ==
    IF names = {} THEN <<>>
    ELSE LET first == CHOOSE a \in names : \A b \in names \ {a} : NameLess(a, b)
         IN <<first>> \o SortNames(names \ {first})

\* sorted(source_dir.glob('part_*.wav'))
GlobSorted(parts) == SortNames(DOMAIN parts)

\* w.getparams(): the format fields and the frame count of the header
GetParams(w) == [fmt |-> w.fmt, nframes |-> FrameCount(w.frames)]

RECURSIVE ReadAll(_, _, _)
ReadAll(listing, parts, i) ==
    IF i > Len(listing) THEN <<>>
    ELSE parts[listing[i]].frames \o ReadAll(listing, parts, i + 1)

\* frames of part_files[0] followed by frames += w.readframes(...) of the rest
MergedFrames(listing, parts) == ReadAll(listing, parts, 1)

\* logger.warning: some later chunk has w.getparams() != params
ParamsDiffer(listing, parts) ==
    \E i \in 2..Len(listing) :
        GetParams(parts[listing[i]]) # GetParams(parts[listing[1]])

\* duration_sec = params.nframes / params.framerate; duration_sec > 3600
OverAnHour(params) == params.nframes > HOUR * params.fmt.framerate

(***************************************************************************)
(* Initial states: the files a session finds when it starts.               *)
(***************************************************************************)
RECURSIVE ParasText(_)
ParasText(k) ==
    IF k = 0 THEN <<>>
    ELSE IF k = 1 THEN <<"a">>
    ELSE ParasText(k - 1) \o <<Newline, "a">>

\* the annotated texts of a session: k one-letter paragraphs, or a blank line
SynthTexts == {ParasText(k) : k \in 0..MaxFragments} \cup {<<" ">>}

StaleChunk == CHOOSE r \in Responses : r.fmt = Format(1)

\* <<exists, part_*.wav entries, other entries>>
InitDirs ==
    { <<FALSE, EmptyDir, {}>>,
      <<TRUE, EmptyDir, {}>>,
      <<TRUE, EmptyDir, {"notes.txt"}>>,
      <<TRUE, (PartName(1) :> StaleChunk), {}>> }

\* no earlier invocation: nothing written, no run given up
NoPast == [wrote |-> FALSE, abort_at |-> 0]

\* the second process is not running
IdlePeer == [pc |-> "idle", fragments |-> <<>>, idx |-> 0, attempt |-> 0,
             calls |-> 0, succeeded |-> {}, ret |-> "none"]

Locals ==
    /\ fragments = <<>>
    /\ idx = 0
    /\ attempt = 0
    /\ calls = 0
    /\ tried = <<>>
    /\ succeeded = {}
    /\ stress_ret = "none"
    /\ synth_ret = "none"
    /\ merge_ret = "none"
    /\ warned = FALSE
    /\ noticed = FALSE
    /\ part_files = <<>>

Init ==
    /\ pc = "menu"
    /\ mode = "single"
    /\ cmds = 0
    /\ \E d \in InitDirs :
          /\ dir_exists = d[1]
          /\ dir_parts = d[2]
          /\ dir_others = d[3]
    /\ stressed_file \in {MissingText} \cup {TextFile(t) : t \in SynthTexts}
    /\ threshold \in Thresholds
    /\ output_file = NoOutput
    /\ Locals
    /\ past = NoPast
    /\ peer = IdlePeer

dirVars == <<dir_exists, dir_parts, dir_others>>
synthVars == <<fragments, idx, attempt, calls, tried, succeeded>>
mergeVars == <<output_file, warned, noticed, part_files>>
otherVars == <<past, peer>>

(***************************************************************************)
(* menu: one choice per iteration of the while loop.                       *)
(***************************************************************************)
ResetLocals ==
    /\ fragments' = <<>>
    /\ idx' = 0
    /\ attempt' = 0
    /\ calls' = 0
    /\ tried' = <<>>
    /\ succeeded' = {}
    /\ stress_ret' = "none"
    /\ synth_ret' = "none"
    /\ merge_ret' = "none"
    /\ warned' = FALSE
    /\ noticed' = FALSE
    /\ part_files' = <<>>

Choose(m, stage) ==
    /\ cmds < MaxCommands
    /\ cmds' = cmds + 1
    /\ mode' = m
    /\ pc' = stage
    /\ ResetLocals
    /\ past' = [wrote |-> past.wrote \/ succeeded # {},
                abort_at |-> IF synth_ret = "False" /\ calls > 0 THEN idx ELSE 0]
    /\ UNCHANGED <<dirVars, stressed_file, threshold, output_file, peer>>

\* choice == '1': run_full_cycle
MenuFullCycle == pc = "menu" /\ Choose("cycle", "stress")
\* choice == '2': stress_text
MenuStress == pc = "menu" /\ Choose("single", "stress")
\* choice == '3': tts_synthesize
MenuSynthesize == pc = "menu" /\ Choose("single", "synth")
\* choice == '4': merge_parts
MenuMerge == pc = "menu" /\ Choose("single", "merge")
\* choice == '0': break
MenuExit == pc = "menu" /\ Choose("single", "exit")
\* any other input: the loop asks again
MenuInvalid == pc = "menu" /\ Choose("single", "menu")

\* run_full_cycle: the stage that follows stress_text returning ret
AfterStress(m, ret) == IF m = "cycle" /\ ret = "True" THEN "synth" ELSE "menu"
\* run_full_cycle: the stage that follows tts_synthesize returning ret
\* merge_parts called without looking at what tts_synthesize returned
AfterSynth_Always(m, ret) == IF m = "cycle" THEN "merge" ELSE "menu"

AfterSynth(m, ret) == IF m = "cycle" /\ ret = "True" THEN "merge" ELSE "menu"

(***************************************************************************)
(* stress_text: the annotation service is an external collaborator; the    *)
(* text it returns is any document.                                        *)
(***************************************************************************)
StressOk ==
    /\ pc = "stress"
    /\ \E t \in SynthTexts : stressed_file' = TextFile(t)
    /\ stress_ret' = "True"
    /\ pc' = AfterStress(mode, "True")
    /\ UNCHANGED <<otherVars, mode, cmds, dirVars, threshold, synthVars, synth_ret,
                   merge_ret, mergeVars>>

\* urlopen raised in one of the two rounds: return False
StressFail ==
    /\ pc = "stress"
    /\ stress_ret' = "False"
    /\ pc' = AfterStress(mode, "False")
    /\ UNCHANGED <<otherVars, mode, cmds, dirVars, stressed_file, threshold, synthVars,
                   synth_ret, merge_ret, mergeVars>>

\* an exception outside the try (reading the input file, json.loads, the
\* response's structure) reaches __main__: sys.exit(1)
StressRaise ==
    /\ pc = "stress"
    /\ pc' = "crashed"
    /\ UNCHANGED <<otherVars, mode, cmds, dirVars, stressed_file, threshold, synthVars,
                   stress_ret, synth_ret, merge_ret, mergeVars>>

(***************************************************************************)
(* tts_synthesize.                                                         *)
(***************************************************************************)
\* PARTS_DIR is not empty: return False
SynthRefuse ==
    /\ pc = "synth"
    /\ dir_exists
    /\ DirNonEmpty(dir_parts, dir_others)
    /\ synth_ret' = "False"
    /\ pc' = AfterSynth(mode, "False")
    /\ UNCHANGED <<otherVars, mode, cmds, dirVars, stressed_file, threshold, synthVars,
                   stress_ret, merge_ret, mergeVars>>

\* stressed_path.read_text raises: the exception reaches __main__
SynthRaise ==
    /\ pc = "synth"
    /\ ~(dir_exists /\ DirNonEmpty(dir_parts, dir_others))
    /\ ~stressed_file.exists
    /\ dir_exists' = TRUE
    /\ pc' = "crashed"
    /\ UNCHANGED <<otherVars, mode, cmds, dir_parts, dir_others, stressed_file, threshold,
                   synthVars, stress_ret, synth_ret, merge_ret, mergeVars>>

\* no non-blank paragraph: the for loop has nothing to do, return True
SynthNoFragments ==
    /\ pc = "synth"
    /\ ~(dir_exists /\ DirNonEmpty(dir_parts, dir_others))
    /\ stressed_file.exists
    /\ Fragmenter(stressed_file.text, threshold) = <<>>
    /\ dir_exists' = TRUE
    /\ synth_ret' = "True"
    /\ pc' = AfterSynth(mode, "True")
    /\ UNCHANGED <<otherVars, mode, cmds, dir_parts, dir_others, stressed_file, threshold,
                   synthVars, stress_ret, merge_ret, mergeVars>>

\* the fragment list is built and the loop starts at idx = 1, attempt = 1
SynthBegin ==
    /\ pc = "synth"
    /\ ~(dir_exists /\ DirNonEmpty(dir_parts, dir_others))
    /\ stressed_file.exists
    /\ Fragmenter(stressed_file.text, threshold) # <<>>
    /\ dir_exists' = TRUE
    /\ fragments' = Fragmenter(stressed_file.text, threshold)
    /\ idx' = 1
    /\ attempt' = 1
    /\ tried' = [i \in 1..Len(fragments') |-> 0]
    /\ pc' = "attempt"
    /\ UNCHANGED <<otherVars, mode, cmds, dir_parts, dir_others, stressed_file, threshold,
                   calls, succeeded, stress_ret, synth_ret, merge_ret, mergeVars>>

\* mutant: range(1, RETRY_COUNT + 2)
MayRetry_OneMore(a) == a <= RETRY_COUNT

\* for attempt in range(1, RETRY_COUNT + 1): another attempt follows a failed one
MayRetry(a) == a < RETRY_COUNT

\* mutant: the loop leaves out the last fragment
LastFragment_OffByOne(i, frags) == i + 1 >= Len(frags)

\* enumerate(fragments, start=1): fragment i is the last one
LastFragment(i, frags) == i >= Len(frags)

\* mutant: "continue" in place of "return False" after the last attempt
FailedAttempt_SkipFragment ==
    IF attempt < RETRY_COUNT
    THEN /\ attempt' = attempt + 1
         /\ UNCHANGED <<pc, idx, synth_ret>>
    ELSE IF idx >= Len(fragments)
         THEN /\ synth_ret' = "True"
              /\ pc' = "menu"
              /\ UNCHANGED <<idx, attempt>>
         ELSE /\ idx' = idx + 1
              /\ attempt' = 1
              /\ UNCHANGED <<pc, synth_ret>>

\* what follows a failed attempt: the next attempt, or return False
FailedAttempt ==
    IF MayRetry(attempt)
    THEN /\ attempt' = attempt + 1
         /\ UNCHANGED <<pc, idx, synth_ret>>
    ELSE /\ synth_ret' = "False"
         /\ pc' = AfterSynth(mode, "False")
         /\ UNCHANGED <<idx, attempt>>

\* urlopen returned and the payload was written: success = True, break
AttemptOk ==
    /\ pc = "attempt"
    /\ \E audio \in Responses :
          dir_parts' = WriteFile(dir_parts, PartName(idx), audio)
    /\ calls' = calls + 1
    /\ tried' = [tried EXCEPT ![idx] = @ + 1]
    /\ succeeded' = succeeded \cup {idx}
    /\ IF LastFragment(idx, fragments)
       THEN /\ synth_ret' = "True"
            /\ pc' = AfterSynth(mode, "True")
            /\ UNCHANGED <<idx, attempt>>
       ELSE /\ idx' = idx + 1
            /\ attempt' = 1
            /\ UNCHANGED <<pc, synth_ret>>
    /\ UNCHANGED <<otherVars, mode, cmds, dir_exists, dir_others, stressed_file, threshold,
                   fragments, stress_ret, merge_ret, mergeVars>>

\* urlopen raised (HTTPError, URLError, timeout): logged, then time.sleep(1),
\* which changes no state
AttemptTransportFail ==
    /\ pc = "attempt"
    /\ calls' = calls + 1
    /\ tried' = [tried EXCEPT ![idx] = @ + 1]
    /\ FailedAttempt
    /\ UNCHANGED <<otherVars, mode, cmds, dirVars, stressed_file, threshold, fragments,
                   succeeded, stress_ret, merge_ret, mergeVars>>

\* urlopen returned but writing part_file raised: open('wb') failed and the
\* directory is as before, or f.write failed and a cut-short file is left
AttemptWriteFail ==
    /\ pc = "attempt"
    /\ calls' = calls + 1
    /\ tried' = [tried EXCEPT ![idx] = @ + 1]
    /\ \/ dir_parts' = dir_parts
       \/ dir_parts' = WriteFile(dir_parts, PartName(idx), Truncated)
    /\ FailedAttempt
    /\ UNCHANGED <<otherVars, mode, cmds, dir_exists, dir_others, stressed_file, threshold,
                   fragments, succeeded, stress_ret, merge_ret, mergeVars>>

(***************************************************************************)
(* merge_parts.                                                            *)
(***************************************************************************)
\* mutant: the empty listing is not checked and an empty output is written
MergeNoParts_WritesEmpty ==
    /\ pc = "merge"
    /\ GlobSorted(dir_parts) = <<>>
    /\ output_file' = OutputOf(Wav(Format(1), <<>>))
    /\ merge_ret' = "True"
    /\ pc' = "menu"
    /\ UNCHANGED <<otherVars, mode, cmds, dirVars, stressed_file, threshold, synthVars,
                   stress_ret, synth_ret, warned, noticed, part_files>>

\* not part_files: return False
MergeNoParts ==
    /\ pc = "merge"
    /\ GlobSorted(dir_parts) = <<>>
    /\ merge_ret' = "False"
    /\ pc' = "menu"
    /\ UNCHANGED <<otherVars, mode, cmds, dirVars, stressed_file, threshold, synthVars,
                   stress_ret, synth_ret, mergeVars>>

\* wave.open raises on a chunk it cannot read, before the output is opened
MergeRaise ==
    /\ pc = "merge"
    /\ \E n \in DOMAIN dir_parts : ~dir_parts[n].valid
    /\ pc' = "crashed"
    /\ UNCHANGED <<otherVars, mode, cmds, dirVars, stressed_file, threshold, synthVars,
                   stress_ret, synth_ret, merge_ret, mergeVars>>

\* the output is written with the first chunk's parameters and all frames;
\* closing the writer patches the header's frame count to the frames written
\* the chunks deleted once they are merged
MergeOk_Cleanup ==
    /\ pc = "merge"
    /\ GlobSorted(dir_parts) # <<>>
    /\ \A n \in DOMAIN dir_parts : dir_parts[n].valid
    /\ LET params == GetParams(dir_parts[GlobSorted(dir_parts)[1]])
       IN /\ output_file' = OutputOf(Wav(params.fmt,
                                       MergedFrames(GlobSorted(dir_parts),
                                                    dir_parts)))
          /\ part_files' = GlobSorted(dir_parts)
          /\ warned' = ParamsDiffer(part_files', dir_parts)
          /\ noticed' = OverAnHour(params)
    /\ merge_ret' = "True"
    /\ pc' = "menu"
    /\ dir_parts' = EmptyDir
    /\ UNCHANGED <<otherVars, mode, cmds, dir_exists, dir_others, stressed_file, threshold, synthVars,
                   stress_ret, synth_ret>>

MergeOk ==
    /\ pc = "merge"
    /\ GlobSorted(dir_parts) # <<>>
    /\ \A n \in DOMAIN dir_parts : dir_parts[n].valid
    /\ LET params == GetParams(dir_parts[GlobSorted(dir_parts)[1]])
       IN /\ output_file' = OutputOf(Wav(params.fmt,
                                       MergedFrames(GlobSorted(dir_parts),
                                                    dir_parts)))
          /\ part_files' = GlobSorted(dir_parts)
          /\ warned' = ParamsDiffer(part_files', dir_parts)
          /\ noticed' = OverAnHour(params)
    /\ merge_ret' = "True"
    /\ pc' = "menu"
    /\ UNCHANGED <<otherVars, mode, cmds, dirVars, stressed_file, threshold, synthVars,
                   stress_ret, synth_ret>>

Next ==
    \/ MenuFullCycle
    \/ MenuStress
    \/ MenuSynthesize
    \/ MenuMerge
    \/ MenuExit
    \/ MenuInvalid
    \/ StressOk
    \/ StressFail
    \/ StressRaise
    \/ SynthRefuse
    \/ SynthRaise
    \/ SynthNoFragments
    \/ SynthBegin
    \/ AttemptOk
    \/ AttemptTransportFail
    \/ AttemptWriteFail
    \/ MergeNoParts
    \/ MergeRaise
    \/ MergeOk

Spec == Init /\ [][Next]_vars

(***************************************************************************)
(* A session whose caller may empty the scratch directory between two      *)
(* commands, as the refusal message of tts_synthesize asks (line 116).     *)
(***************************************************************************)
\* "Очистіть її і спробуйте знову": between two commands the caller deletes every entry of
\* the scratch directory; the locals of the stage that returned are gone
CallerEmptiesScratch ==
    /\ pc = "menu"
    /\ dir_exists
    /\ DirNonEmpty(dir_parts, dir_others)
    /\ dir_parts' = EmptyDir
    /\ dir_others' = {}
    /\ past' = NoPast
    /\ ResetLocals
    /\ UNCHANGED <<pc, mode, cmds, dir_exists, stressed_file, threshold,
                   output_file, peer>>

NextReuse ==
    \/ Next
    \/ CallerEmptiesScratch

SpecReuse == Init /\ [][NextReuse]_vars

(***************************************************************************)
(* The fragmenter on its own (tts_synthesize, lines 119-128): every text   *)
(* up to MaxTextLen characters under every threshold.                      *)
(***************************************************************************)
InitFrag ==
    /\ pc = "fragment"
    /\ mode = "single"
    /\ cmds = 0
    /\ dir_exists = TRUE
    /\ dir_parts = EmptyDir
    /\ dir_others = {}
    /\ \E t \in Texts : stressed_file = TextFile(t)
    /\ threshold \in Thresholds
    /\ output_file = NoOutput
    /\ Locals
    /\ past = NoPast
    /\ peer = IdlePeer

FragmentText ==
    /\ pc = "fragment"
    /\ fragments' = Fragmenter(stressed_file.text, threshold)
    /\ pc' = "fragmented"
    /\ UNCHANGED <<otherVars, mode, cmds, dirVars, stressed_file, threshold, idx, attempt,
                   calls, tried, succeeded, stress_ret, synth_ret, merge_ret,
                   mergeVars>>

NextFrag == FragmentText

SpecFrag == InitFrag /\ [][NextFrag]_vars

(***************************************************************************)
(* merge_parts on its own (menu choice 4) against whatever the scratch     *)
(* directory holds: the directory outlives the process, and the caller     *)
(* manages it between runs.                                                *)
(***************************************************************************)
PoolIndices == {1, 2, 999, 1000}

PoolFrames == {<<<<"x", 1>>>>, <<<<"y", 2>>>>, <<<<"z", 3601>>>>}

PoolContents ==
    {Truncated} \cup {Wav(f, fr) : f \in Formats, fr \in PoolFrames}

PoolDirs ==
    UNION {[{PartName(i) : i \in S} -> PoolContents] : S \in SUBSET PoolIndices}

OldOutput == OutputOf(Wav(Format(2), <<<<"old", 1>>>>))

InitMerge ==
    /\ pc = "merge"
    /\ mode = "single"
    /\ cmds = 1
    /\ \/ /\ dir_exists = FALSE
          /\ dir_parts = EmptyDir
          /\ dir_others = {}
       \/ /\ dir_exists = TRUE
          /\ dir_parts \in PoolDirs
          /\ dir_others \in {{}, {"notes.txt"}}
    /\ stressed_file = MissingText
    /\ threshold = 0
    /\ output_file \in {NoOutput, OldOutput}
    /\ Locals
    /\ past = NoPast
    /\ peer = IdlePeer

NextMerge ==
    \/ MergeNoParts
    \/ MergeRaise
    \/ MergeOk

SpecMerge == InitMerge /\ [][NextMerge]_vars

(***************************************************************************)
(* Two processes started together, each in tts_synthesize on the same      *)
(* PARTS_DIR (lines 110-164): this process, and a peer whose position is   *)
(* the record peer.  Every step of either is one system call or one        *)
(* request, and the steps interleave in any order.                         *)
(***************************************************************************)
\* the peer synthesizes its own text, so its audio is its own
PeerResponse == Wav(Format(1), <<<<"p", 1>>>>)

\* the peer finds an entry in PARTS_DIR: return False
PeerRefuse ==
    /\ peer.pc = "synth"
    /\ dir_exists
    /\ DirNonEmpty(dir_parts, dir_others)
    /\ peer' = [peer EXCEPT !.pc = "done", !.ret = "False"]
    /\ UNCHANGED <<past, pc, mode, cmds, dirVars, stressed_file, threshold,
                   synthVars, stress_ret, synth_ret, merge_ret, mergeVars>>

\* mutant: a lock file taken before the emptiness check keeps the peer out
\* while this process is in its loop
PeerBegin_Locked ==
    /\ peer.pc = "synth"
    /\ pc # "attempt"
    /\ ~(dir_exists /\ DirNonEmpty(dir_parts, dir_others))
    /\ dir_exists' = TRUE
    /\ peer' = [peer EXCEPT !.pc = "attempt", !.idx = 1, !.attempt = 1]
    /\ UNCHANGED <<past, pc, mode, cmds, dir_parts, dir_others, stressed_file,
                   threshold, synthVars, stress_ret, synth_ret, merge_ret,
                   mergeVars>>

\* the peer finds PARTS_DIR empty and enters its loop: nothing but the
\* emptiness of the directory is looked at
PeerBegin ==
    /\ peer.pc = "synth"
    /\ ~(dir_exists /\ DirNonEmpty(dir_parts, dir_others))
    /\ dir_exists' = TRUE
    /\ peer' = [peer EXCEPT !.pc = "attempt", !.idx = 1, !.attempt = 1]
    /\ UNCHANGED <<past, pc, mode, cmds, dir_parts, dir_others, stressed_file,
                   threshold, synthVars, stress_ret, synth_ret, merge_ret,
                   mergeVars>>

\* the peer's request succeeded and its payload is written over whatever
\* part_file was
PeerAttemptOk ==
    /\ peer.pc = "attempt"
    /\ dir_parts' = WriteFile(dir_parts, PartName(peer.idx), PeerResponse)
    /\ peer' = IF LastFragment(peer.idx, peer.fragments)
               THEN [peer EXCEPT !.calls = @ + 1,
                                 !.succeeded = @ \cup {peer.idx},
                                 !.pc = "done", !.ret = "True"]
               ELSE [peer EXCEPT !.calls = @ + 1,
                                 !.succeeded = @ \cup {peer.idx},
                                 !.idx = @ + 1, !.attempt = 1]
    /\ UNCHANGED <<past, pc, mode, cmds, dir_exists, dir_others, stressed_file,
                   threshold, synthVars, stress_ret, synth_ret, merge_ret,
                   mergeVars>>

\* the peer's attempt failed, in urlopen or in the write (which may leave a
\* cut-short file): the next attempt, or return False
PeerAttemptFail ==
    /\ peer.pc = "attempt"
    /\ \/ dir_parts' = dir_parts
       \/ dir_parts' = WriteFile(dir_parts, PartName(peer.idx), Truncated)
    /\ peer' = IF MayRetry(peer.attempt)
               THEN [peer EXCEPT !.calls = @ + 1, !.attempt = @ + 1]
               ELSE [peer EXCEPT !.calls = @ + 1, !.pc = "done",
                                 !.ret = "False"]
    /\ UNCHANGED <<past, pc, mode, cmds, dir_exists, dir_others, stressed_file,
                   threshold, synthVars, stress_ret, synth_ret, merge_ret,
                   mergeVars>>

\* both processes are at the first line of tts_synthesize, each with a text
\* of one fragment or more; PARTS_DIR is empty or absent
InitRace ==
    /\ pc = "synth"
    /\ mode = "single"
    /\ cmds = 1
    /\ dir_exists \in BOOLEAN
    /\ dir_parts = EmptyDir
    /\ dir_others = {}
    /\ stressed_file \in {TextFile(ParasText(k)) : k \in 1..MaxFragments}
    /\ threshold = 0
    /\ output_file = NoOutput
    /\ Locals
    /\ past = NoPast
    /\ peer \in {[IdlePeer EXCEPT !.pc = "synth",
                                  !.fragments = Fragmenter(ParasText(k), 0)] :
                   k \in 1..MaxFragments}

NextRace ==
    \/ SynthRefuse
    \/ SynthBegin
    \/ AttemptOk
    \/ AttemptTransportFail
    \/ AttemptWriteFail
    \/ PeerRefuse
    \/ PeerBegin
    \/ PeerAttemptOk
    \/ PeerAttemptFail

SpecRace == InitRace /\ [][NextRace]_vars

(***************************************************************************)
(* Properties of the fragmenter, stated on the document itself: its        *)
(* paragraphs are the stretches between line breaks.                       *)
(***************************************************************************)
Breaks(text) == {i \in 1..Len(text) : text[i] = Newline}

KthBreak(text, k) ==
    CHOOSE i \in Breaks(text) :
        Cardinality({j \in Breaks(text) : j < i}) = k - 1

DocParagraph(text, k) ==
    LET n == Cardinality(Breaks(text)) + 1
        lo == IF k = 1 THEN 1 ELSE KthBreak(text, k - 1) + 1
        hi == IF k = n THEN Len(text) ELSE KthBreak(text, k) - 1
    IN SubSeq(text, lo, hi)

DocParagraphs(text) ==
    [k \in 1..(Cardinality(Breaks(text)) + 1) |-> DocParagraph(text, k)]

WhitespaceOnly(p) == \A i \in DOMAIN p : p[i] = " "

NonBlankParas(text) ==
    SelectSeq(DocParagraphs(text), LAMBDA p : ~WhitespaceOnly(p))

RECURSIVE JoinRange(_, _, _)
JoinRange(nb, lo, hi) ==
    IF lo >= hi THEN nb[lo]
    ELSE nb[lo] \o <<" ">> \o JoinRange(nb, lo + 1, hi)

RECURSIVE GroupFrom(_, _, _, _)
GroupFrom(nb, cuts, lo, i) ==
    IF i >= Len(nb) THEN <<JoinRange(nb, lo, Len(nb))>>
    ELSE IF i \in cuts
         THEN <<JoinRange(nb, lo, i)>> \o GroupFrom(nb, cuts, i + 1, i + 1)
         ELSE GroupFrom(nb, cuts, lo, i + 1)

\* the paragraphs nb grouped into consecutive runs that end at the cuts,
\* each run joined by single spaces
GroupedJoin(nb, cuts) == IF nb = <<>> THEN <<>> ELSE GroupFrom(nb, cuts, 1, 1)

CutSets(nb) == SUBSET (1..(Len(nb) - 1))

\* first and last paragraph of the run that holds paragraph j
RunFirst(cuts, j) ==
    LET before == {c \in cuts : c < j}
    IN IF before = {} THEN 1
       ELSE 1 + (CHOOSE c \in before : \A d \in before : d <= c)

RunLast(cuts, j, n) ==
    LET after == {c \in cuts : c >= j}
    IN IF after = {} THEN n
       ELSE CHOOSE c \in after : \A d \in after : c <= d

\* C5: for every document with at least one non-empty paragraph, the fragments
\* are the non-empty paragraphs, each whole, exactly once and in document
\* order, grouped into consecutive runs joined by single spaces; no
\* whitespace-only paragraph is part of any fragment.
C5_EveryParagraphOnce ==
    pc = "fragmented" =>
        LET nb == NonBlankParas(stressed_file.text)
        IN nb # <<>> =>
             \E cuts \in CutSets(nb) : fragments = GroupedJoin(nb, cuts)

\* C5 witness: a document with a blank paragraph between two non-empty ones
\* that end up joined in one fragment
C5_Witness ==
    /\ pc = "fragmented"
    /\ Len(NonBlankParas(stressed_file.text)) = 2
    /\ \E k \in DOMAIN DocParagraphs(stressed_file.text) :
          /\ WhitespaceOnly(DocParagraphs(stressed_file.text)[k])
          /\ 1 < k
          /\ k < Len(DocParagraphs(stressed_file.text))
    /\ Len(fragments) = 1

\* C6: every fragment except the last has at least threshold characters.
C6_AllButLastReachThreshold ==
    pc = "fragmented" =>
        \A i \in 1..(Len(fragments) - 1) : Len(fragments[i]) >= threshold

\* C6 witness: a fragment joined from two paragraphs is followed by another
C6_Witness ==
    /\ pc = "fragmented"
    /\ threshold >= 2
    /\ Len(fragments) = 2
    /\ Len(NonBlankParas(stressed_file.text)) = 3
    /\ Len(fragments[1]) >= threshold

\* C7 as claimed: every non-empty paragraph longer than the threshold is a
\* fragment of its own, whatever precedes it.
C7_LongParagraphAlone ==
    pc = "fragmented" =>
        LET nb == NonBlankParas(stressed_file.text)
        IN \A j \in 1..Len(nb) :
              Len(nb[j]) > threshold =>
                  \E i \in 1..Len(fragments) : fragments[i] = nb[j]

\* C7 amended: a paragraph longer than the threshold is kept whole and ends
\* its fragment; it is a fragment of its own exactly when it is the first
\* non-empty paragraph or the text gathered before it has reached the
\* threshold, and otherwise it is appended to that shorter fragment.
C7_LongParagraphEndsFragment ==
    pc = "fragmented" =>
        LET nb == NonBlankParas(stressed_file.text)
        IN \E cuts \in CutSets(nb) :
              /\ fragments = GroupedJoin(nb, cuts)
              /\ \A j \in 1..Len(nb) :
                    Len(nb[j]) > threshold =>
                        /\ RunLast(cuts, j, Len(nb)) = j
                        /\ RunFirst(cuts, j) = j <=>
                              \/ j = 1
                              \/ Len(JoinRange(nb, RunFirst(cuts, j - 1), j - 1))
                                    >= threshold
                        /\ RunFirst(cuts, j) = j =>
                              fragments[Cardinality({c \in cuts : c < j}) + 1]
                                  = nb[j]

\* C7 witness: a paragraph longer than the threshold was appended to the
\* shorter fragment before it
C7_Witness ==
    /\ pc = "fragmented"
    /\ LET nb == NonBlankParas(stressed_file.text)
       IN /\ Len(nb) = 2
          /\ Len(nb[2]) > threshold
          /\ Len(nb[1]) < threshold
          /\ fragments = <<nb[1] \o <<" ">> \o nb[2]>>

(***************************************************************************)
(* Properties of the synthesis stage.                                      *)
(***************************************************************************)
RECURSIVE DigitsValue(_)
DigitsValue(ds) ==
    IF ds = <<>> THEN 0
    ELSE 10 * DigitsValue(SubSeq(ds, 1, Len(ds) - 1)) + ds[Len(ds)]

\* the index embedded in a chunk file name
NameIndex(name) == DigitsValue(name)

\* the indices of the chunk files present
ChunkIndices == {NameIndex(n) : n \in DOMAIN dir_parts}

\* the chunk files of a directory listing whose name carries index i
FilesAt(parts, i) == {n \in DOMAIN parts : NameIndex(n) = i}

\* a synthesis run that passed the emptiness check is under way or has returned
RunOnEmptyDir ==
    \/ pc = "attempt"
    \/ synth_ret = "True"
    \/ synth_ret = "False" /\ calls > 0

\* C1: tts_synthesize started on a scratch directory that holds any entry
\* returns False at once: no remote call, no entry created, changed or deleted.
C1_NonEmptyDirRefused ==
    [][(pc = "synth" /\ dir_exists /\ (DOMAIN dir_parts # {} \/ dir_others # {}))
         => /\ synth_ret' = "False"
            /\ pc' = "menu"
            /\ calls' = 0
            /\ dir_exists' = dir_exists
            /\ dir_parts' = dir_parts
            /\ dir_others' = dir_others]_vars

\* C1 witness: the stage has returned False without a call, on a directory
\* that holds an entry that is no chunk
C1_Witness ==
    /\ pc = "menu"
    /\ synth_ret = "False"
    /\ calls = 0
    /\ dir_others # {}
    /\ stressed_file.exists
    /\ NonBlankParas(stressed_file.text) # <<>>

\* C2: a fragment gets attempts until its first success or its 3rd failure and
\* never a 4th; the stage neither gives up before the 3rd failure nor moves
\* on without a success; a fragment that succeeded (the third attempt
\* included) has exactly one chunk file at its index, a readable one.
C2_AtMostThreeAttempts ==
    /\ [](/\ \A i \in DOMAIN tried : tried[i] <= 3
          /\ \A i \in succeeded :
                /\ Cardinality(FilesAt(dir_parts, i)) = 1
                /\ \A n \in FilesAt(dir_parts, i) : dir_parts[n].valid
          /\ (synth_ret = "False" /\ calls > 0) =>
                (tried[idx] = 3 /\ idx \notin succeeded)
          /\ pc = "attempt" => \A i \in 1..(idx - 1) : i \in succeeded)
    /\ [][calls' = calls + 1 =>
            /\ idx \notin succeeded
            /\ tried[idx] < 3
            /\ tried' = [tried EXCEPT ![idx] = tried[idx] + 1]]_vars

\* C2 witness: a fragment succeeded on its third attempt
C2_Witness ==
    \E i \in DOMAIN tried :
        /\ tried[i] = 3
        /\ i \in succeeded
        /\ Cardinality(FilesAt(dir_parts, i)) = 1

\* C3: when the third attempt on fragment k fails the stage returns False, no
\* fragment after k has had a call, and the chunks of fragments 1..k-1 are
\* present with the content their successful attempts wrote.
C3_AbortKeepsEarlierChunks ==
    /\ [][(pc = "attempt" /\ tried[idx] = 2 /\ calls' = calls + 1
             /\ idx \notin succeeded')
            => /\ synth_ret' = "False"
               /\ pc' = "menu"]_vars
    /\ [][pc = "attempt" =>
            \A i \in succeeded :
                /\ FilesAt(dir_parts', i) = FilesAt(dir_parts, i)
                /\ \A n \in FilesAt(dir_parts, i) : dir_parts'[n] = dir_parts[n]]_vars
    /\ []((synth_ret = "False" /\ calls > 0) =>
            /\ \A j \in DOMAIN tried : j > idx => tried[j] = 0
            /\ \A j \in 1..(idx - 1) :
                  /\ j \in succeeded
                  /\ \E n \in FilesAt(dir_parts, j) : dir_parts[n] \in Responses)

\* C3 witness: the stage gave up on fragment 2 of 3 after writing chunk 1
C3_Witness ==
    /\ synth_ret = "False"
    /\ Len(fragments) = 3
    /\ idx = 2
    /\ tried = <<1, 3, 0>>
    /\ FilesAt(dir_parts, 1) # {}

\* C4: in a run started on an empty directory the chunk indices present are
\* always a gap-free prefix 1..k, one file per index and nothing else; calls
\* go to fragments in ascending index order; on success for N fragments the
\* directory holds exactly the chunk files 1..N.
C4_GapFreePrefix ==
    /\ [](RunOnEmptyDir =>
            /\ dir_others = {}
            /\ \E k \in 0..Len(fragments) :
                  /\ ChunkIndices = 1..k
                  /\ Cardinality(DOMAIN dir_parts) = k
            /\ \A i \in DOMAIN tried :
                  tried[i] > 0 => \A j \in 1..(i - 1) : tried[j] > 0
            /\ synth_ret = "True" =>
                  /\ ChunkIndices = 1..Len(fragments)
                  /\ Cardinality(DOMAIN dir_parts) = Len(fragments))
    /\ [][pc = "attempt" =>
            /\ idx' >= idx
            /\ calls' = calls + 1 =>
                  \A j \in DOMAIN tried : (tried'[j] > tried[j]) <=> (j = idx)]_vars

\* C4 witness: three fragments synthesized, one of them after a failed attempt
C4_Witness ==
    /\ synth_ret = "True"
    /\ Len(fragments) = 3
    /\ ChunkIndices = 1..3
    /\ \E i \in DOMAIN tried : tried[i] > 1

\* C8 as claimed: with an annotated text that has no non-empty paragraph the
\* synthesis stage returns False, and a full cycle does not reach merge_parts.
C8_EmptyTextFails ==
    (/\ stressed_file.exists
     /\ NonBlankParas(stressed_file.text) = <<>>
     /\ synth_ret # "none")
        => /\ synth_ret = "False"
           /\ pc # "merge"
           /\ merge_ret = "none"

(***************************************************************************)
(* Properties of the merge stage.                                          *)
(***************************************************************************)
RECURSIVE ByIndex(_)
\* chunk file names in ascending order of the index they carry
ByIndex(names) ==
    IF names = {} THEN <<>>
    ELSE LET least == CHOOSE a \in names :
                         \A b \in names : NameIndex(a) <= NameIndex(b)
         IN <<least>> \o ByIndex(names \ {least})

RECURSIVE FramesInOrder(_, _)
FramesInOrder(order, parts) ==
    IF order = <<>> THEN <<>>
    ELSE parts[Head(order)].frames \o FramesInOrder(Tail(order), parts)

RECURSIVE FrameSum(_, _)
FrameSum(order, parts) ==
    IF order = <<>> THEN 0
    ELSE FrameCount(parts[Head(order)].frames) + FrameSum(Tail(order), parts)

AllSameFormat(parts) ==
    \A a, b \in DOMAIN parts :
        parts[a].valid /\ parts[b].valid /\ parts[a].fmt = parts[b].fmt

\* C9 as claimed: merging N >= 1 chunks of one format writes an output of
\* that format whose frames are the chunks' frames concatenated in ascending
\* index order, the frame count being the sum of the chunks' frame counts.
C9_MergeInIndexOrder ==
    (merge_ret = "True" /\ DOMAIN dir_parts # {} /\ AllSameFormat(dir_parts)) =>
        LET order == ByIndex(DOMAIN dir_parts)
        IN /\ output_file.exists
           /\ output_file.wav.valid
           /\ output_file.wav.fmt = dir_parts[order[1]].fmt
           /\ output_file.wav.frames = FramesInOrder(order, dir_parts)
           /\ FrameCount(output_file.wav.frames) = FrameSum(order, dir_parts)

\* C10: with no part_*.wav entry in the scratch directory (other entries only,
\* none at all, or no directory) merge_parts returns False and the output
\* file is neither created nor changed.
C10_NoChunksNoOutput ==
    [][(pc = "merge" /\ DOMAIN dir_parts = {})
         => /\ merge_ret' = "False"
            /\ pc' = "menu"
            /\ output_file' = output_file]_vars

\* C10 witness: merge failed on a directory holding only an entry that is no
\* chunk, and the output file of an earlier run is still there
C10_Witness ==
    /\ merge_ret = "False"
    /\ dir_exists
    /\ dir_others # {}
    /\ DOMAIN dir_parts = {}
    /\ output_file = OldOutput

(***************************************************************************)
(* Properties of the full cycle and of the session (run_full_cycle, menu). *)
(***************************************************************************)
\* the entries a step leaves in place: nothing of the scratch directory is
\* deleted and an existing output file stays a file
NothingRemoved ==
    /\ dir_exists => dir_exists'
    /\ DOMAIN dir_parts \subseteq DOMAIN dir_parts'
    /\ dir_others \subseteq dir_others'
    /\ output_file.exists => output_file'.exists

\* C11: a full cycle runs stress_text, tts_synthesize, merge_parts in this
\* order; tts_synthesize is entered only after stress_text returned True and
\* merge_parts only after tts_synthesize returned True; after a stage
\* returned False the cycle is back at the menu with no later stage run, and
\* no step of a cycle removes a scratch entry or the output file, nor puts
\* back an earlier content of a chunk a stage has returned from.
C11_CycleStagesInOrder ==
    /\ [](mode = "cycle" =>
            /\ (pc \in {"synth", "attempt"} \/ synth_ret # "none")
                  => stress_ret = "True"
            /\ (pc = "merge" \/ merge_ret # "none") => synth_ret = "True"
            /\ stress_ret = "False"
                  => pc = "menu" /\ synth_ret = "none" /\ merge_ret = "none"
            /\ synth_ret = "False" => pc = "menu" /\ merge_ret = "none")
    /\ [][(mode = "cycle" /\ pc # "menu") => NothingRemoved]_vars
    /\ [][(mode = "cycle" /\ pc # "menu" /\ pc' = "menu"
               /\ "False" \in {stress_ret', synth_ret', merge_ret'})
             => \A n \in DOMAIN dir_parts :
                   NameIndex(n) # idx => dir_parts'[n] = dir_parts[n]]_vars

\* a cycle stopped by tts_synthesize giving up on fragment 2, chunk 1 kept
C11_Witness ==
    /\ mode = "cycle"
    /\ pc = "menu"
    /\ stress_ret = "True"
    /\ synth_ret = "False"
    /\ merge_ret = "none"
    /\ idx = 2
    /\ 1 \in succeeded
    /\ FilesAt(dir_parts, 1) # {}

(***************************************************************************)
(* More properties of the merge stage (merge_parts).                       *)
(***************************************************************************)
\* C12 as claimed: the order in which merge_parts reads the chunk files, the
\* sorted() order of the names tts_synthesize writes, is the ascending order
\* of the fragment index in the name, however many fragments there are.
C12_SortIsIndexOrder ==
    merge_ret = "True" => part_files = ByIndex(DOMAIN dir_parts)

\* C13 as claimed: after a merge that returned True the over-one-hour notice
\* was printed exactly when the sum of the frame counts of all merged chunks,
\* divided by the sample rate of the first chunk, exceeds 3600 seconds.
C13_NoticeIffOverAnHour ==
    merge_ret = "True" =>
        (noticed <=> FrameSum(part_files, dir_parts)
                       > 3600 * dir_parts[part_files[1]].fmt.framerate)

\* some chunk after the first, in index order, is of another format
LaterFormatDiffers(parts) ==
    LET order == ByIndex(DOMAIN parts)
    IN \E i \in 2..Len(order) : parts[order[i]].fmt # parts[order[1]].fmt

\* C14 as claimed: when a chunk after the first has another format than the
\* first chunk, merge_parts warns, still appends that chunk's frames at its
\* position in index order, writes the output in the first chunk's format and
\* returns True.
C14_MismatchWarnsAndAppends ==
    [][(pc = "merge" /\ DOMAIN dir_parts # {}
          /\ (\A n \in DOMAIN dir_parts : dir_parts[n].valid)
          /\ LaterFormatDiffers(dir_parts))
         => LET order == ByIndex(DOMAIN dir_parts)
            IN /\ merge_ret' = "True"
               /\ warned'
               /\ output_file'.wav.fmt = dir_parts[order[1]].fmt
               /\ output_file'.wav.frames = FramesInOrder(order, dir_parts)]_vars

\* C18: merge_parts only reads the scratch directory: whether it returns
\* True, returns False or raises, the directory, its chunk files and the
\* content of each are after the step what they were before, and so is the
\* annotated-text file; the output file is the only file that may differ.
C18_MergeOnlyReadsScratch ==
    [][pc = "merge"
         => /\ dir_exists' = dir_exists
            /\ DOMAIN dir_parts' = DOMAIN dir_parts
            /\ \A n \in DOMAIN dir_parts : dir_parts'[n] = dir_parts[n]
            /\ dir_others' = dir_others
            /\ stressed_file' = stressed_file]_vars

\* C18 witness: a merge of two chunks replaced the old output file, and the
\* two chunks are still in the directory
C18_Witness ==
    /\ merge_ret = "True"
    /\ Len(part_files) = 2
    /\ output_file.exists
    /\ output_file # OldOutput
    /\ output_file.wav.frames = FramesInOrder(part_files, dir_parts)

(***************************************************************************)
(* Properties of a session: what one invocation leaves to the next.        *)
(***************************************************************************)
RECURSIVE ChunkFramesUpTo(_, _)
\* the frames of the chunk files with index 1..k, in index order
ChunkFramesUpTo(parts, k) ==
    IF k = 0 THEN <<>>
    ELSE ChunkFramesUpTo(parts, k - 1)
           \o parts[CHOOSE n \in FilesAt(parts, k) : TRUE].frames

\* C16 as claimed: after a run of tts_synthesize that started on an empty
\* scratch directory gave up on fragment k > 1, merge_parts invoked on its
\* own from the menu returns True and writes an output whose frames are
\* exactly the frames of chunks 1..k-1 in index order.
C16_MergeAfterAbort ==
    [][(pc = "merge" /\ mode = "single" /\ past.abort_at > 1)
         => /\ merge_ret' = "True"
            /\ pc' = "menu"
            /\ \A i \in 1..(past.abort_at - 1) : FilesAt(dir_parts, i) # {}
            /\ output_file'.exists
            /\ output_file'.wav.frames
                  = ChunkFramesUpTo(dir_parts, past.abort_at - 1)]_vars

\* C17: no stage removes an entry of the scratch directory; once an earlier
\* invocation of tts_synthesize has written a chunk, and until the caller
\* empties the directory, every invocation of tts_synthesize, from the menu
\* or inside a full cycle, returns False without a single request, and in
\* such a full cycle merge_parts is not entered.
C17_NoReuseUntilEmptied ==
    /\ [][(pc # "menu" \/ cmds' # cmds) => NothingRemoved]_vars
    /\ [][(past.wrote /\ pc = "synth")
            => synth_ret' = "False" /\ calls' = 0 /\ pc' = "menu"]_vars
    /\ [](past.wrote =>
            /\ pc # "attempt"
            /\ calls = 0
            /\ synth_ret # "True"
            /\ mode = "cycle" => pc # "merge" /\ merge_ret = "none")

\* C17 witness: the session's first command wrote a chunk, its second is a
\* full cycle whose tts_synthesize refused and whose merge_parts never ran
C17_Witness ==
    /\ past.wrote
    /\ mode = "cycle"
    /\ pc = "menu"
    /\ stress_ret = "True"
    /\ synth_ret = "False"
    /\ calls = 0
    /\ merge_ret = "none"
    /\ DOMAIN dir_parts # {}

\* C19 as claimed: at every point of a run of tts_synthesize that started on
\* an empty scratch directory, a chunk file exists at index i only if an
\* attempt on fragment i succeeded, and it holds a complete response payload;
\* an attempt that failed during the write has left no file.
C19_ChunkOnlyAfterSuccess ==
    RunOnEmptyDir =>
        \A n \in DOMAIN dir_parts :
            /\ NameIndex(n) \in succeeded
            /\ dir_parts[n].valid

\* C20 as claimed: tts_synthesize invoked from the menu on its own with the
\* annotated-text file missing or unreadable returns False to the menu; no
\* exception ends the process.
C20_MissingTextReturnsFalse ==
    [][(pc = "synth" /\ mode = "single" /\ ~stressed_file.exists)
         => pc' = "menu" /\ synth_ret' = "False"]_vars

(***************************************************************************)
(* Properties of two concurrent runs of tts_synthesize.                    *)
(***************************************************************************)
\* PARTS_DIR is absent or holds no entry
ScratchEmpty == ~dir_exists \/ (DOMAIN dir_parts = {} /\ dir_others = {})

\* C15: nothing but the emptiness of the scratch directory guards it: a run
\* at the emptiness check can pass it whenever the directory is still empty,
\* also while the other run is past its own check and inside its loop; and a
\* successful attempt of either run on index i makes the chunk file of index
\* i that run's payload, whatever the other run had written there.
C15_NoLockOnScratch ==
    /\ []((peer.pc = "synth" /\ ScratchEmpty) => ENABLED PeerBegin)
    /\ []((pc = "synth" /\ ScratchEmpty) => ENABLED SynthBegin)
    /\ [][peer'.succeeded # peer.succeeded
            => \A n \in FilesAt(dir_parts', peer.idx) :
                  dir_parts'[n] = PeerResponse]_vars
    /\ [][succeeded' # succeeded
            => \A n \in FilesAt(dir_parts', idx) :
                  dir_parts'[n] \in Responses]_vars

\* C15 witness: both runs passed the emptiness check and both returned True,
\* both wrote index 1, and the directory now holds this run's chunk 1 (written
\* over the peer's) next to the peer's chunk 2
C15_Witness ==
    /\ synth_ret = "True"
    /\ peer.ret = "True"
    /\ 1 \in succeeded
    /\ 1 \in peer.succeeded
    /\ \A n \in FilesAt(dir_parts, 1) : dir_parts[n] \in Responses
    /\ FilesAt(dir_parts, 2) # {}
    /\ \A n \in FilesAt(dir_parts, 2) : dir_parts[n] = PeerResponse


=============================================================================
